---- MODULE Spec2Model ----
(***************************************************************************)
(* Backbone.Mobile (src/public/javascripts/backbone.mobile.js):            *)
(*   Mobile.BindTo    - the per-owner ledger of event bindings             *)
(*   Mobile.View      - serializeData, configureTriggers, close            *)
(*   Mobile.AppRouter - appRoutes compiled into route registrations        *)
(*                                                                         *)
(* The event emitter is Backbone.Events.  Its `on` appends one listener;   *)
(* its `off(name, callback, context)` removes EVERY listener of `name`     *)
(* whose callback and context are the given ones (it compares the fields,  *)
(* it knows nothing of binding records); `off()` without arguments removes *)
(* every listener of the object.  `off` runs no user code.                 *)
(***************************************************************************)
EXTENDS Integers, Sequences, FiniteSets, TLC

\* ---------------------------------------------------------------- bounds
\* The number of bindTo calls of a run (the view constructor's included).
MaxBindings == 3
\* The number of close() calls on a view in a run.
MaxCloses == 2
\* The number of entries of a route table.
MaxRoutes == 3

\* ------------------------------------------------------------- the objects
\* "v" is a Mobile.View, "o" another object that mixes in Mobile.BindTo,
\* "m" a plain Backbone.Events object (a model), "c" an object used as context.
Views == {"v"}
Owners == {"v", "o"}
SourceObjects == {"v", "m"}
\* The `context` argument of bindTo: absent, or the object "c".
Undefined == "undefined"
ContextArgs == {Undefined, "c"}
\* What bindTo is called on: the view binds to the model's "change" event and to
\* its own "close" event; the other owner watches the view's "close" event.
BindTargets(this) ==
  IF this = "v" THEN {<<"v", "close">>, <<"m", "change">>} ELSE {<<"v", "close">>}
Callbacks == {"f"}

VARIABLES
  bindings,      \* owner -> this.bindings: the sequence of binding records (by id)
  listeners,     \* source object -> its Backbone.Events listeners, in `on` order
  recs,          \* every binding record bindTo has returned; a record's id is its index
  unbound,       \* history: the ids that have been passed to unbindFrom
  pc,            \* view -> the statement of close() that runs next, or "idle"
  cfg,           \* view -> which hooks (beforeClose, onClose) the view defines
  detached,      \* view -> remove() has detached it
  closeLog,      \* view -> history: the steps of the running / last close()
  closeCalls,    \* view -> history: the number of close() calls
  closeEmitted,  \* view -> history: the number of "close" events emitted
  onCloseObs,    \* view -> history: what the last onClose hook saw when invoked: the view
                 \*   detached, the registry non-empty, a record of the view not yet unbound
  closeHist,     \* view -> history: how often the beforeClose and the onClose hook have
                 \*   been invoked
  bindHist,      \* view -> history, kept by the specifications whose properties read it:
                 \*   whether the view has called bindTo during its running / last
                 \*   close(); whether a listener has been registered on the view
                 \*   through bindTo since its last close() returned
  ua,            \* the unbindAll traversal in progress (SpecReentrant only)
  returned,      \* the record the last bindTo call returned
  fired,         \* the emission the step just taken performed, if any: the object,
                 \*   the event and the listeners invoked, in order
  appRoutes,     \* router: the route table, <<pattern, methodName>> in declaration order
  controller,    \* router: the names of the methods the controller has (the local
                 \*   `controller` of the constructor, once it has chosen)
  thisController, \* router: this.controller, [given, methods]
  optController, \* router: options.controller, [given, methods]
  using,         \* router: which object the local `controller` is: "options", "this",
                 \*   or "none" (undefined)
  handlers,      \* router: per registered route, whose method the handler is and which
                 \*   object it is bound to
  routes,        \* router: processAppRoutes' local array `routes`
  ri,            \* router: the loop index i of lines 230-244, counted from 1
  registered,    \* router: the router.route(route, methodName, ...) calls made, in order
  rpc,           \* router: "new", "register", "done" or "thrown"
  thrown,        \* router: the method name the NoMethodError names
  model,         \* view: this.model, [present, json]
  collection,    \* view: this.collection, [present, json]
  templateHelpers, \* view: this.templateHelpers, [kind, value]
  triggers,      \* view: this.triggers, [kind, value]
  called,        \* view: the last of serializeData / configureTriggers called
  result,        \* view: what that call returned, [defined, value]
  toJSONCalls,   \* view: history: whose toJSON that call invoked
  events,        \* view: this.events, [kind, value]
  eventsArg,     \* view: the argument of delegateEvents, [kind, value]
  delegated      \* view: what delegateEvents handed to Backbone's delegateEvents

bindVars == <<bindings, listeners, recs, returned, unbound>>
closeVars == <<pc, cfg, detached, closeLog, closeCalls, closeEmitted, onCloseObs>>
routerVars == <<appRoutes, controller, thisController, optController, using, handlers,
                routes, ri, registered, rpc, thrown>>
viewVars == <<model, collection, templateHelpers, triggers, called, result, toJSONCalls,
              events, eventsArg, delegated>>

\* ------------------------------------------------------- Backbone.Events
\* obj.on(eventName, callback, context); `id` is history: the binding record
\* on whose behalf the listener was registered.
On(L, obj, eventName, callback, context, id) ==
  [L EXCEPT ![obj] = Append(@, [eventName |-> eventName, callback |-> callback,
                                context |-> context, id |-> id])]

\* obj.off(eventName, callback, context): every listener of eventName with
\* that callback and that context goes.
Off(L, obj, eventName, callback, context) ==
  [L EXCEPT ![obj] = SelectSeq(@, LAMBDA x :
      ~(x.eventName = eventName /\ x.callback = callback /\ x.context = context))]

\* obj.off() / obj.unbind() without arguments: every listener of obj goes.
OffAll(L, obj) == [L EXCEPT ![obj] = <<>>]

\* obj.trigger(eventName): every listener obj holds for eventName is invoked
\* once, in `on` order.
Emission(L, obj, eventName) ==
  [obj |-> obj, eventName |-> eventName,
   calls |-> SelectSeq(L[obj], LAMBDA x : x.eventName = eventName)]

NoEmission == [obj |-> "none", eventName |-> "none", calls |-> <<>>]

\* ---------------------------------------------------------- Mobile.BindTo
\* context = context || this
ResolveContext(this, context) == IF context = Undefined THEN this ELSE context

\* The record bindTo builds; `by` is history (the owner that called bindTo).
Binding(this, obj, eventName, callback, context) ==
  [obj |-> obj, eventName |-> eventName, callback |-> callback,
   context |-> ResolveContext(this, context), by |-> this]

\* A bug unbindFrom could have: records compared by their fields, not by
\* identity.
RejectEqualFields(bs, id) ==
  SelectSeq(bs, LAMBDA b :
    <<recs[b].obj, recs[b].eventName, recs[b].callback, recs[b].context>>
      # <<recs[id].obj, recs[id].eventName, recs[id].callback, recs[id].context>>)

\* _.reject(this.bindings, function(bind){ return bind === binding })
Reject(bs, id) == SelectSeq(bs, LAMBDA b : b # id)

\* A bug unbindFrom could have: the listener goes, the record stays.
UnbindFromKeepsRecord(H, this, id) ==
  [b |-> H.b,
   l |-> Off(H.l, recs[id].obj, recs[id].eventName, recs[id].callback, recs[id].context)]

\* unbindFrom on the pair H = (bindings, listeners).
UnbindFromOp(H, this, id) ==
  [b |-> [H.b EXCEPT ![this] = Reject(@, id)],
   l |-> Off(H.l, recs[id].obj, recs[id].eventName, recs[id].callback, recs[id].context)]

\* _.each(snapshot, unbindFrom), from element i on.
RECURSIVE UnbindEach(_, _, _, _)
UnbindEach(H, this, snapshot, i) ==
  IF i > Len(snapshot) THEN H
  ELSE UnbindEach(UnbindFromOp(H, this, snapshot[i]), this, snapshot, i + 1)

\* A bug unbindAll could have: no clone, so _.each walks the live array while
\* unbindFrom shortens it, and every second record is skipped.
RECURSIVE UnbindEachLive(_, _, _)
UnbindEachLive(H, this, i) ==
  IF i > Len(H.b[this]) THEN H
  ELSE UnbindEachLive(UnbindFromOp(H, this, H.b[this][i]), this, i + 1)

UnbindAllNoClone(H, this) == UnbindEachLive(H, this, 1)

\* unbindAll: clone this.bindings, then unbindFrom each element of the clone.
UnbindAllOp(H, this) == UnbindEach(H, this, H.b[this], 1)

Heap == [b |-> bindings, l |-> listeners]

NoTraversal == [active |-> FALSE, owner |-> "o", snapshot |-> <<>>, index |-> 1,
                rebound |-> {}, passed |-> <<>>]

\* User code runs only between calls and inside a hook or an event callback.
UserCodeRuns ==
  \A v \in Views :
    \/ pc[v] = "idle"
    \/ pc[v] = "remove" /\ cfg[v].beforeClose
    \/ pc[v] = "trigger" /\ cfg[v].onClose
    \/ pc[v] = "unbindAll" /\ \E i \in DOMAIN listeners[v] : listeners[v][i].eventName = "close"

BindTo(this, obj, eventName, callback, context) ==
  /\ UserCodeRuns
  /\ Len(recs) < MaxBindings
  /\ LET id == Len(recs) + 1 IN
       /\ listeners' = On(listeners, obj, eventName, callback,
                          ResolveContext(this, context), id)
       /\ recs' = Append(recs, Binding(this, obj, eventName, callback, context))
       /\ returned' = id
       /\ bindings' = [bindings EXCEPT ![this] = Append(@, id)]
       /\ ua' = IF ua.active /\ ua.owner = this
                THEN [ua EXCEPT !.rebound = @ \cup {id}] ELSE ua
  /\ UNCHANGED <<routerVars, viewVars, unbound, closeVars, closeHist>>
  /\ fired' = NoEmission

UnbindFrom(this, id) ==
  /\ UserCodeRuns
  /\ id \in DOMAIN recs
  /\ LET H == UnbindFromOp(Heap, this, id) IN
       /\ bindings' = H.b
       /\ listeners' = H.l
  /\ unbound' = unbound \cup {id}
  /\ UNCHANGED <<routerVars, viewVars, recs, returned, closeVars, closeHist, bindHist, ua>>
  /\ fired' = NoEmission

UnbindAll(this) ==
  /\ UserCodeRuns
  /\ LET H == UnbindAllOp(Heap, this) IN
       /\ bindings' = H.b
       /\ listeners' = H.l
  /\ unbound' = unbound \cup {bindings[this][i] : i \in DOMAIN bindings[this]}
  /\ UNCHANGED <<routerVars, viewVars, recs, returned, closeVars, closeHist, bindHist, ua>>
  /\ fired' = NoEmission

\* ------------------------------------------------------------ Mobile.View
\* The state after `new Mobile.View()`: the constructor has bound the view to
\* its own "show" event.
ShowBinding(v) == Binding(v, v, "show", "onShowCalled", v)

\* close(), statement by statement.  A hook's body (user code) runs between the
\* statement that invokes it and the next statement of close(); closeLog records
\* each step at the moment it is executed.
\* A close() that remembers it has run: from the second call on the
\* beforeClose hook is not invoked again.
CloseHookOnce(v) ==
  /\ UserCodeRuns
  /\ pc[v] = "idle"
  /\ closeCalls[v] < MaxCloses
  /\ closeCalls' = [closeCalls EXCEPT ![v] = @ + 1]
  /\ LET hook == cfg[v].beforeClose /\ closeCalls[v] = 0 IN
       /\ closeLog' = [closeLog EXCEPT ![v] = IF hook THEN <<"beforeClose">> ELSE <<>>]
       /\ closeHist' = [closeHist EXCEPT ![v].beforeClose = IF hook THEN @ + 1 ELSE @]
  /\ bindHist' = [bindHist EXCEPT ![v] = [boundInside |-> FALSE, boundAfter |-> FALSE]]
  /\ pc' = [pc EXCEPT ![v] = "remove"]
  /\ UNCHANGED <<routerVars, viewVars, bindVars, cfg, detached, closeEmitted, onCloseObs, ua>>
  /\ fired' = NoEmission

\* line 168: if (this.beforeClose) { this.beforeClose(); }
Close(v) ==
  /\ UserCodeRuns
  /\ pc[v] = "idle"
  /\ closeCalls[v] < MaxCloses
  /\ closeCalls' = [closeCalls EXCEPT ![v] = @ + 1]
  /\ closeLog' = [closeLog EXCEPT ![v] = IF cfg[v].beforeClose THEN <<"beforeClose">> ELSE <<>>]
  /\ pc' = [pc EXCEPT ![v] = "remove"]
  /\ closeHist' = [closeHist EXCEPT ![v].beforeClose = IF cfg[v].beforeClose THEN @ + 1 ELSE @]
  /\ bindHist' = [bindHist EXCEPT ![v] = [boundInside |-> FALSE, boundAfter |-> FALSE]]
  /\ UNCHANGED <<routerVars, viewVars, bindVars, cfg, detached, closeEmitted, onCloseObs, ua>>
  /\ fired' = NoEmission

\* A bug close() could have: it goes from remove() straight to the "close" event.
CloseRemoveSkipsOnClose(v) ==
  /\ pc[v] = "remove"
  /\ detached' = [detached EXCEPT ![v] = TRUE]
  /\ closeLog' = [closeLog EXCEPT ![v] = Append(@, "remove")]
  /\ pc' = [pc EXCEPT ![v] = "trigger"]
  /\ UNCHANGED <<routerVars, viewVars, bindVars, cfg, closeCalls, closeEmitted, onCloseObs,
                 closeHist, bindHist, ua>>
  /\ fired' = NoEmission

\* line 170: this.remove();
CloseRemove(v) ==
  /\ pc[v] = "remove"
  /\ detached' = [detached EXCEPT ![v] = TRUE]
  /\ closeLog' = [closeLog EXCEPT ![v] = Append(@, "remove")]
  /\ pc' = [pc EXCEPT ![v] = "onClose"]
  /\ UNCHANGED <<routerVars, viewVars, bindVars, cfg, closeCalls, closeEmitted, onCloseObs,
                 closeHist, bindHist, ua>>
  /\ fired' = NoEmission

\* line 172: if (this.onClose) { this.onClose(); }
CloseOnClose(v) ==
  /\ pc[v] = "onClose"
  /\ IF cfg[v].onClose
     THEN /\ closeLog' = [closeLog EXCEPT ![v] = Append(@, "onClose")]
          /\ onCloseObs' = [onCloseObs EXCEPT ![v] =
                 [ran |-> TRUE, detached |-> detached[v], nonEmpty |-> bindings[v] # <<>>,
                  live |-> \E id \in DOMAIN recs : recs[id].by = v /\ id \notin unbound]]
          /\ closeHist' = [closeHist EXCEPT ![v].onClose = @ + 1]
     ELSE UNCHANGED <<closeLog, onCloseObs, closeHist>>
  /\ pc' = [pc EXCEPT ![v] = "trigger"]
  /\ UNCHANGED <<bindHist, routerVars, viewVars, bindVars, cfg, detached, closeCalls, closeEmitted, ua>>
  /\ fired' = NoEmission

\* line 173: this.trigger('close');
CloseTrigger(v) ==
  /\ pc[v] = "trigger"
  /\ closeEmitted' = [closeEmitted EXCEPT ![v] = @ + 1]
  /\ closeLog' = [closeLog EXCEPT ![v] = Append(@, "close")]
  /\ pc' = [pc EXCEPT ![v] = "unbindAll"]
  /\ fired' = Emission(listeners, v, "close")
  /\ UNCHANGED <<routerVars, viewVars, bindVars, cfg, detached, closeCalls, onCloseObs,
                 closeHist, bindHist, ua>>

\* A bug close() could have: it goes from the "close" event straight to
\* unbind(), leaving the registry to the caller.
CloseWithoutUnbindAll(v) ==
  /\ pc[v] = "unbindAll"
  /\ closeLog' = [closeLog EXCEPT ![v] = Append(@, "unbindAll")]
  /\ pc' = [pc EXCEPT ![v] = "unbind"]
  /\ UNCHANGED <<routerVars, viewVars, bindVars, cfg, detached, closeCalls, closeEmitted,
                 onCloseObs, closeHist, bindHist, ua>>
  /\ fired' = NoEmission

\* line 174: this.unbindAll();
CloseUnbindAll(v) ==
  /\ pc[v] = "unbindAll"
  /\ LET H == UnbindAllOp(Heap, v) IN
       /\ bindings' = H.b
       /\ listeners' = H.l
  /\ unbound' = unbound \cup {bindings[v][i] : i \in DOMAIN bindings[v]}
  /\ closeLog' = [closeLog EXCEPT ![v] = Append(@, "unbindAll")]
  /\ pc' = [pc EXCEPT ![v] = "unbind"]
  /\ UNCHANGED <<routerVars, viewVars, recs, returned, cfg, detached, closeCalls, closeEmitted,
                 onCloseObs, closeHist, bindHist, ua>>
  /\ fired' = NoEmission

\* A bug close() could have: it returns without this.unbind(), so what others
\* registered on the view stays.
CloseWithoutUnbind(v) ==
  /\ pc[v] = "unbind"
  /\ closeLog' = [closeLog EXCEPT ![v] = Append(@, "unbind")]
  /\ pc' = [pc EXCEPT ![v] = "idle"]
  /\ UNCHANGED <<routerVars, viewVars, bindVars, cfg, detached, closeCalls, closeEmitted,
                 onCloseObs, closeHist, bindHist, ua>>
  /\ fired' = NoEmission

\* line 175: this.unbind();  then close() returns
CloseUnbind(v) ==
  /\ pc[v] = "unbind"
  /\ listeners' = OffAll(listeners, v)
  /\ closeLog' = [closeLog EXCEPT ![v] = Append(@, "unbind")]
  /\ pc' = [pc EXCEPT ![v] = "idle"]
  /\ UNCHANGED <<routerVars, viewVars, bindings, recs, returned, unbound, cfg, detached,
                 closeCalls, closeEmitted, onCloseObs, closeHist, bindHist, ua>>
  /\ fired' = NoEmission

\* A constructor that does not bind the view to its own "show" event.
BindInitWithoutShow ==
  /\ recs = <<>>
  /\ bindings = [w \in Owners |-> <<>>]
  /\ listeners = [s \in SourceObjects |-> <<>>]
  /\ returned = 0
  /\ unbound = {}
  /\ ua = NoTraversal
  /\ fired = NoEmission

\* The binding state after `new Mobile.View()`.
BindInit ==
  /\ recs = <<ShowBinding("v")>>
  /\ bindings = [w \in Owners |-> IF w = "v" THEN <<1>> ELSE <<>>]
  /\ listeners = On([s \in SourceObjects |-> <<>>], "v", "show", "onShowCalled", "v", 1)
  /\ returned = 1
  /\ unbound = {}
  /\ ua = NoTraversal
  /\ fired = NoEmission

CloseInit ==
  /\ pc = [v \in Views |-> "idle"]
  /\ detached = [v \in Views |-> FALSE]
  /\ closeLog = [v \in Views |-> <<>>]
  /\ closeCalls = [v \in Views |-> 0]
  /\ closeEmitted = [v \in Views |-> 0]
  /\ onCloseObs = [v \in Views |->
                    [ran |-> FALSE, detached |-> FALSE, nonEmpty |-> FALSE, live |-> FALSE]]
  /\ closeHist = [v \in Views |-> [beforeClose |-> 0, onClose |-> 0]]
  /\ bindHist = [v \in Views |-> [boundInside |-> FALSE, boundAfter |-> FALSE]]

NoHooks == [v \in Views |-> [beforeClose |-> FALSE, onClose |-> FALSE]]
EmptyObject == [k \in {} |-> "0"]

\* No router under construction.
RouterIdle ==
  /\ appRoutes = <<>>
  /\ controller = {}
  /\ thisController = [given |-> FALSE, methods |-> {}]
  /\ optController = [given |-> FALSE, methods |-> {}]
  /\ using = "none"
  /\ handlers = <<>>
  /\ routes = <<>>
  /\ ri = 1
  /\ registered = <<>>
  /\ rpc = "done"
  /\ thrown = "none"

\* A view without model, collection, templateHelpers and triggers.
ViewIdle ==
  /\ model = [present |-> FALSE, json |-> EmptyObject]
  /\ collection = [present |-> FALSE, json |-> "[]"]
  /\ templateHelpers = [kind |-> "absent", value |-> EmptyObject]
  /\ triggers = [kind |-> "absent", value |-> EmptyObject]
  /\ called = "none"
  /\ result = [defined |-> FALSE, value |-> EmptyObject]
  /\ toJSONCalls = {}
  /\ events = [kind |-> "absent", value |-> EmptyObject]
  /\ eventsArg = [kind |-> "absent", value |-> EmptyObject]
  /\ delegated = [defined |-> FALSE, value |-> EmptyObject]

Init ==
  /\ BindInit
  /\ CloseInit
  /\ cfg \in [Views -> [beforeClose : BOOLEAN, onClose : BOOLEAN]]
  /\ RouterIdle
  /\ ViewIdle

vars == <<bindings, listeners, recs, returned, fired, unbound, pc, cfg, detached, closeLog,
          closeCalls, closeEmitted, onCloseObs, closeHist, bindHist, ua, appRoutes,
          controller,
          thisController, optController, using, handlers, routes, ri,
          registered, rpc, thrown, model, collection, templateHelpers, triggers, called,
          result, toJSONCalls, events, eventsArg, delegated>>

Next ==
  \/ \E this \in Owners : \E t \in BindTargets(this), cb \in Callbacks, ctx \in ContextArgs :
        BindTo(this, t[1], t[2], cb, ctx) /\ UNCHANGED bindHist
  \/ \E this \in Owners, id \in 1..MaxBindings : UnbindFrom(this, id)
  \/ \E this \in Owners : UnbindAll(this)
  \/ \E v \in Views : Close(v)
  \/ \E v \in Views : CloseRemove(v)
  \/ \E v \in Views : CloseOnClose(v)
  \/ \E v \in Views : CloseTrigger(v)
  \/ \E v \in Views : CloseUnbindAll(v)
  \/ \E v \in Views : CloseUnbind(v)

Spec == Init /\ [][Next]_vars
\* ------------------------------------------- unbindAll, element by element
\* A source object is any object with on/off; one whose `off` calls back into
\* the owner makes bindTo / unbindFrom run in the middle of a traversal.  Here
\* unbindAll is taken one unbindFrom at a time, and BindTo / UnbindFrom may run
\* between two of them.
\* line 50: var bindings = _.map(this.bindings, _.identity);
UnbindAllBegin(this) ==
  /\ ~ua.active
  /\ ua' = [active |-> bindings[this] # <<>>, owner |-> this, snapshot |-> bindings[this],
            index |-> 1, rebound |-> {}, passed |-> <<>>]
  /\ UNCHANGED <<routerVars, viewVars, bindVars, closeVars, closeHist, bindHist>>
  /\ fired' = NoEmission

\* A traversal that walks the live registry instead of the copy: the turn at
\* position i takes what the registry holds at i by then, and the walk ends
\* when the registry has no such position.
UnbindAllStepLive ==
  /\ ua.active
  /\ LET live == bindings[ua.owner] IN
       IF ua.index > Len(live)
       THEN /\ ua' = [ua EXCEPT !.active = FALSE]
            /\ UNCHANGED <<bindings, listeners, unbound>>
       ELSE LET H == UnbindFromOp(Heap, ua.owner, live[ua.index]) IN
              /\ bindings' = H.b
              /\ listeners' = H.l
              /\ unbound' = unbound \cup {live[ua.index]}
              /\ ua' = [ua EXCEPT !.index = @ + 1,
                                  !.active = ua.index < Len(H.b[ua.owner]),
                                  !.passed = Append(@, live[ua.index])]
  /\ UNCHANGED <<routerVars, viewVars, recs, returned, closeVars, closeHist, bindHist>>
  /\ fired' = NoEmission

\* lines 51-53: one turn of _.each: that.unbindFrom(binding); after the last
\* turn unbindAll returns.  ua.passed is the history of the records the
\* traversal has passed to unbindFrom.
UnbindAllStep ==
  /\ ua.active
  /\ LET H == UnbindFromOp(Heap, ua.owner, ua.snapshot[ua.index]) IN
       /\ bindings' = H.b
       /\ listeners' = H.l
  /\ unbound' = unbound \cup {ua.snapshot[ua.index]}
  /\ ua' = [ua EXCEPT !.index = @ + 1, !.active = ua.index < Len(ua.snapshot),
                      !.passed = Append(@, ua.snapshot[ua.index])]
  /\ UNCHANGED <<routerVars, viewVars, recs, returned, closeVars, closeHist, bindHist>>
  /\ fired' = NoEmission

NextReentrant ==
  \/ \E this \in Owners : \E t \in BindTargets(this), cb \in Callbacks, ctx \in ContextArgs :
        BindTo(this, t[1], t[2], cb, ctx) /\ UNCHANGED bindHist
  \/ \E this \in Owners, id \in 1..MaxBindings : UnbindFrom(this, id)
  \/ \E this \in Owners : UnbindAllBegin(this)
  \/ UnbindAllStep

SpecReentrant == Init /\ [][NextReentrant]_vars

\* ---------------------------------------- Mobile.View, bindTo calls observed
\* The history of a bindTo call by `this` on `obj`: whether it ran during a
\* close() of the caller, and whether it registered a listener on a view
\* whose close() had returned.
ObserveBind(this, obj) ==
  bindHist' = [v \in Views |-> [bindHist[v] EXCEPT
      !.boundInside = @ \/ (this = v /\ pc[v] # "idle"),
      !.boundAfter = @ \/ (obj = v /\ pc[v] = "idle" /\ closeCalls[v] > 0)]]

\* The steps of Next, with that history kept.
NextObserved ==
  \/ \E this \in Owners : \E t \in BindTargets(this), cb \in Callbacks, ctx \in ContextArgs :
        BindTo(this, t[1], t[2], cb, ctx) /\ ObserveBind(this, t[1])
  \/ \E this \in Owners, id \in 1..MaxBindings : UnbindFrom(this, id)
  \/ \E this \in Owners : UnbindAll(this)
  \/ \E v \in Views : Close(v)
  \/ \E v \in Views : CloseRemove(v)
  \/ \E v \in Views : CloseOnClose(v)
  \/ \E v \in Views : CloseTrigger(v)
  \/ \E v \in Views : CloseUnbindAll(v)
  \/ \E v \in Views : CloseUnbind(v)

\* Views that define both hooks: user code runs at every point of close()
\* where it can.
InitHooks == Init /\ cfg = [v \in Views |-> [beforeClose |-> TRUE, onClose |-> TRUE]]

SpecHooks == InitHooks /\ [][NextObserved]_vars

\* ------------------------------------------------- events emitted on a view
\* The events user code emits on a view: "show" (a region that displays it),
\* "close", and the semantic events of the handlers configureTriggers builds.
ViewEvents == {"show", "close", "do:a"}

\* view.trigger(eventName), from user code or, for a semantic event, from a
\* trigger handler (line 139: that.trigger(value)).
Trigger(v, eventName) ==
  /\ UserCodeRuns
  /\ fired' = Emission(listeners, v, eventName)
  /\ UNCHANGED <<routerVars, viewVars, bindVars, closeVars, closeHist, bindHist, ua>>

NextEmit ==
  \/ NextObserved
  \/ \E v \in Views, eventName \in ViewEvents : Trigger(v, eventName)

\* Views without hooks: what the hooks do during close() is the subject of
\* Spec and SpecHooks.
InitEmit == Init /\ cfg = NoHooks

SpecEmit == InitEmit /\ [][NextEmit]_vars

\* ------------------------------------------- Mobile.BindTo, no view closing
\* bindTo, unbindFrom and unbindAll alone, called by the view and by the other
\* owner in any order.
NextBind ==
  \/ \E this \in Owners : \E t \in BindTargets(this), cb \in Callbacks, ctx \in ContextArgs :
        BindTo(this, t[1], t[2], cb, ctx) /\ UNCHANGED bindHist
  \/ \E this \in Owners, id \in 1..MaxBindings : UnbindFrom(this, id)
  \/ \E this \in Owners : UnbindAll(this)

SpecBind == InitEmit /\ [][NextBind]_vars

\* -------------------------------------------------------- Mobile.AppRouter
\* Route patterns (the keys of appRoutes) and controller method names.  "7" and
\* "10" are keys that are canonical array indices.
Patterns == {"a/:id", "b", "7", "10"}
MethodNames == {"showA", "showB"}
IsIndexKey(p) == p \in {"7", "10"}
IndexValue(p) == IF p = "7" THEN 7 ELSE 10

\* The route tables: up to MaxRoutes entries, no pattern twice (the keys of an object).
RouteTables ==
  {t \in UNION {[1..n -> Patterns \X MethodNames] : n \in 0..MaxRoutes} :
     \A i, j \in DOMAIN t : t[i][1] = t[j][1] => i = j}

\* The entries of t with an index key, by ascending index.
RECURSIVE IndexEntries(_, _)
IndexEntries(t, done) ==
  LET left == {i \in DOMAIN t : IsIndexKey(t[i][1]) /\ i \notin done} IN
    IF left = {} THEN <<>>
    ELSE LET i == CHOOSE x \in left :
                    \A y \in left : IndexValue(t[x][1]) <= IndexValue(t[y][1])
         IN <<t[i]>> \o IndexEntries(t, done \cup {i})

\* `for (route in appRoutes)` with the hasOwnProperty test: the own keys of the
\* object in the engine's property order, index keys first in ascending
\* numeric order, then the other keys in the order they were declared.
ForInOrder(t) == IndexEntries(t, {}) \o SelectSeq(t, LAMBDA e : ~IsIndexKey(e[1]))

\* lines 223-227: routes.unshift([route, appRoutes[route]]) for each key.
RECURSIVE Unshifted(_, _, _)
Unshifted(order, i, acc) ==
  IF i > Len(order) THEN acc ELSE Unshifted(order, i + 1, <<order[i]>> \o acc)

\* A bug the constructor could have: this.controller, when there is one, wins
\* over options.controller.
ControllerChoiceThisFirst ==
  IF thisController.given THEN "this" ELSE IF optController.given THEN "options" ELSE "none"

\* lines 206-209: var controller = this.controller;
\*                if (options && options.controller) controller = options.controller;
ControllerChoice ==
  IF optController.given THEN "options" ELSE IF thisController.given THEN "this" ELSE "none"

ControllerMethods(which) ==
  IF which = "options" THEN optController.methods
  ELSE IF which = "this" THEN thisController.methods ELSE {}

\* lines 202-229: the constructor chooses the controller and calls
\* processAppRoutes, which collects `routes`.
Construct ==
  /\ rpc = "new"
  /\ using' = ControllerChoice
  /\ controller' = ControllerMethods(ControllerChoice)
  /\ routes' = Unshifted(ForInOrder(appRoutes), 1, <<>>)
  /\ ri' = 1
  /\ rpc' = "register"
  /\ UNCHANGED <<appRoutes, thisController, optController, handlers, registered, thrown,
                 bindVars, closeVars, closeHist, bindHist, ua, fired, viewVars>>

\* A bug the loop could have: an entry whose method is missing is passed over.
RegisterStepSkipsMissing ==
  /\ rpc = "register"
  /\ IF ri > Len(routes)
     THEN rpc' = "done" /\ UNCHANGED <<ri, registered, handlers, thrown>>
     ELSE /\ registered' = IF routes[ri][2] \in controller
                           THEN Append(registered, routes[ri]) ELSE registered
          /\ handlers' = IF routes[ri][2] \in controller
                         THEN Append(handlers, [methodOf |-> using, boundTo |-> using])
                         ELSE handlers
          /\ ri' = ri + 1
          /\ UNCHANGED <<rpc, thrown>>
  /\ UNCHANGED <<appRoutes, controller, thisController, optController, using, routes,
                 bindVars, closeVars, closeHist, bindHist, ua, fired, viewVars>>

\* lines 230-244: one turn of the loop: look the method up (a TypeError when
\* there is no controller at all), throw NoMethodError or bind the method to
\* the controller and call router.route; after the last turn the constructor
\* returns.
RegisterStep ==
  /\ rpc = "register"
  /\ IF ri > Len(routes)
     THEN rpc' = "done" /\ UNCHANGED <<ri, registered, handlers, thrown>>
     ELSE IF using = "none"
          THEN /\ rpc' = "typeError"
               /\ UNCHANGED <<ri, registered, handlers, thrown>>
          ELSE IF routes[ri][2] \notin controller
               THEN /\ thrown' = routes[ri][2]
                    /\ rpc' = "thrown"
                    /\ UNCHANGED <<ri, registered, handlers>>
               ELSE /\ registered' = Append(registered, routes[ri])
                    /\ handlers' = Append(handlers, [methodOf |-> using, boundTo |-> using])
                    /\ ri' = ri + 1
                    /\ UNCHANGED <<rpc, thrown>>
  /\ UNCHANGED <<appRoutes, controller, thisController, optController, using, routes,
                 bindVars, closeVars, closeHist, bindHist, ua, fired, viewVars>>

InitRouter ==
  /\ BindInit
  /\ CloseInit
  /\ cfg = NoHooks
  /\ ViewIdle
  /\ appRoutes \in RouteTables
  /\ thisController \in {[given |-> FALSE, methods |-> {}]}
                        \cup [given : {TRUE}, methods : SUBSET MethodNames]
  /\ optController \in {[given |-> FALSE, methods |-> {}]}
                       \cup [given : {TRUE}, methods : SUBSET MethodNames]
  /\ controller = {}
  /\ using = "none"
  /\ handlers = <<>>
  /\ routes = <<>>
  /\ ri = 1
  /\ registered = <<>>
  /\ rpc = "new"
  /\ thrown = "none"

NextRouter == Construct \/ RegisterStep

SpecRouter == InitRouter /\ [][NextRouter]_vars

\* ------------------------------- Mobile.View: serializeData, configureTriggers
\* Plain objects are functions from keys to values.
DataKeys == {"a", "items"}
DataValues == {"1", "2"}
DataObjects == UNION {[ks -> DataValues] : ks \in SUBSET DataKeys}
\* What collection.toJSON() may return (an array, taken as one value).
CollectionJSON == {"[]", "[x]"}
\* DOM event descriptors and semantic event names of a triggers mapping.
Descriptors == {"click .a", "click .b"}
EventNames == {"do:a", "do:b"}
TriggerObjects == UNION {[ds -> EventNames] : ds \in SUBSET Descriptors}
\* templateHelpers / triggers: absent, an object, or a function returning one.
ValueKinds == {"absent", "static", "producer"}

\* A bug _.extend could have: a key the target has already is not overwritten.
ExtendKeepsTarget(target, source) ==
  [k \in DOMAIN target \cup DOMAIN source |->
     IF k \in DOMAIN target THEN target[k] ELSE source[k]]

\* _.extend(target, source): every key of source is copied onto target.
Extend(target, source) ==
  [k \in DOMAIN target \cup DOMAIN source |->
     IF k \in DOMAIN source THEN source[k] ELSE target[k]]

\* lines 113-116: templateHelpers, called with the view as `this` when a function.
\* An absent templateHelpers is undefined, which _.extend copies nothing from.
ResolveHelpers == IF templateHelpers.kind = "absent" THEN EmptyObject ELSE templateHelpers.value

\* mixinTemplateHelpers(target); `hasTarget` is FALSE for an undefined target.
MixinTemplateHelpers(hasTarget, target) ==
  Extend(IF hasTarget THEN target ELSE EmptyObject, ResolveHelpers)

\* lines 94-99: the data before the helpers are mixed in, [defined, value].
BaseData ==
  IF model.present THEN [defined |-> TRUE, value |-> model.json]
  ELSE IF collection.present
       THEN [defined |-> TRUE, value |-> [k \in {"items"} |-> collection.json]]
       ELSE [defined |-> FALSE, value |-> EmptyObject]

\* lines 94-99: the toJSON methods serializeData invokes.
ToJSONInvoked ==
  IF model.present THEN {"model"} ELSE IF collection.present THEN {"collection"} ELSE {}

SerializeData ==
  /\ result' = [defined |-> TRUE,
                value |-> MixinTemplateHelpers(BaseData.defined, BaseData.value)]
  /\ toJSONCalls' = ToJSONInvoked
  /\ called' = "serializeData"
  /\ UNCHANGED <<model, collection, templateHelpers, triggers, events, eventsArg, delegated,
                 bindVars, closeVars, closeHist, bindHist, ua, fired, routerVars>>

\* lines 136-140: the handler built for a triggers entry: on a DOM event it
\* calls preventDefault and stopPropagation where the event has them, then
\* triggers `value` on the view.
TriggerHandler(value) ==
  [preventDefault |-> TRUE, stopPropagation |-> TRUE, trigger |-> value]

\* A bug configureTriggers could have: without triggers it returns {}.
ConfigureTriggersNeverUndefined ==
  [defined |-> TRUE,
   value |-> [d \in DOMAIN triggers.value |-> TriggerHandler(triggers.value[d])]]

\* lines 122-145: what configureTriggers returns, [defined, value].
ConfigureTriggersOp ==
  IF triggers.kind = "absent" THEN [defined |-> FALSE, value |-> EmptyObject]
  ELSE [defined |-> TRUE,
        value |-> [d \in DOMAIN triggers.value |-> TriggerHandler(triggers.value[d])]]

ConfigureTriggers ==
  /\ result' = ConfigureTriggersOp
  /\ toJSONCalls' = {}
  /\ called' = "configureTriggers"
  /\ UNCHANGED <<model, collection, templateHelpers, triggers, events, eventsArg, delegated,
                 bindVars, closeVars, closeHist, bindHist, ua, fired, routerVars>>

InitView ==
  /\ BindInit
  /\ CloseInit
  /\ cfg = NoHooks
  /\ RouterIdle
  /\ model \in {[present |-> FALSE, json |-> EmptyObject]}
               \cup [present : {TRUE}, json : DataObjects]
  /\ collection \in {[present |-> FALSE, json |-> "[]"]}
                    \cup [present : {TRUE}, json : CollectionJSON]
  /\ templateHelpers \in {[kind |-> "absent", value |-> EmptyObject]}
                         \cup [kind : {"static", "producer"}, value : DataObjects]
  /\ triggers \in {[kind |-> "absent", value |-> EmptyObject]}
                  \cup [kind : {"static", "producer"}, value : TriggerObjects]
  /\ called = "none"
  /\ result = [defined |-> FALSE, value |-> EmptyObject]
  /\ toJSONCalls = {}
  /\ events = [kind |-> "absent", value |-> EmptyObject]
  /\ eventsArg = [kind |-> "absent", value |-> EmptyObject]
  /\ delegated = [defined |-> FALSE, value |-> EmptyObject]

NextView == SerializeData \/ ConfigureTriggers

SpecView == InitView /\ [][NextView]_vars

\* ------------------------------------------------ Mobile.View delegateEvents
\* The handlers an events mapping names: methods of the view.
HandlerNames == {"onA", "onB"}
ExplicitHandler(name) == [method |-> name]
EventsObjects ==
  UNION {[ds -> {ExplicitHandler(n) : n \in HandlerNames}] : ds \in SUBSET Descriptors}

\* lines 150-151: events = events || this.events, called with the view as
\* `this` when a function; undefined when neither is there.
ResolveEvents ==
  LET e == IF eventsArg.kind # "absent" THEN eventsArg ELSE events
  IN  [defined |-> e.kind # "absent", value |-> e.value]

\* A bug delegateEvents could have: the explicit events merged last.
CombinedEventsLast ==
  LET ev == ResolveEvents
      tr == ConfigureTriggersOp
  IN  Extend(Extend(EmptyObject, IF tr.defined THEN tr.value ELSE EmptyObject),
             IF ev.defined THEN ev.value ELSE EmptyObject)

\* lines 153-155: _.extend(combinedEvents, events, triggers): the explicit
\* events first, then the handlers configureTriggers built; an undefined
\* source adds nothing.
CombinedEvents ==
  LET ev == ResolveEvents
      tr == ConfigureTriggersOp
  IN  Extend(Extend(EmptyObject, IF ev.defined THEN ev.value ELSE EmptyObject),
             IF tr.defined THEN tr.value ELSE EmptyObject)

\* line 157: Backbone.View.prototype.delegateEvents.call(this, combinedEvents)
DelegateEvents ==
  /\ delegated' = [defined |-> TRUE, value |-> CombinedEvents]
  /\ called' = "delegateEvents"
  /\ UNCHANGED <<model, collection, templateHelpers, triggers, events, eventsArg, result,
                 toJSONCalls, bindVars, closeVars, closeHist, bindHist, ua, fired, routerVars>>

InitDelegate ==
  /\ BindInit
  /\ CloseInit
  /\ cfg = NoHooks
  /\ RouterIdle
  /\ model = [present |-> FALSE, json |-> EmptyObject]
  /\ collection = [present |-> FALSE, json |-> "[]"]
  /\ templateHelpers = [kind |-> "absent", value |-> EmptyObject]
  /\ triggers \in {[kind |-> "absent", value |-> EmptyObject]}
                  \cup [kind : {"static", "producer"}, value : TriggerObjects]
  /\ events \in {[kind |-> "absent", value |-> EmptyObject]}
                \cup [kind : {"static", "producer"}, value : EventsObjects]
  /\ eventsArg \in {[kind |-> "absent", value |-> EmptyObject]}
                   \cup [kind : {"static", "producer"}, value : EventsObjects]
  /\ called = "none"
  /\ result = [defined |-> FALSE, value |-> EmptyObject]
  /\ toJSONCalls = {}
  /\ delegated = [defined |-> FALSE, value |-> EmptyObject]

NextDelegate == DelegateEvents

SpecDelegate == InitDelegate /\ [][NextDelegate]_vars

\* ------------------------------------------------------------------ claims
Combo(r) == <<r.obj, r.eventName, r.callback, r.context>>
Registry(w) == {bindings[w][i] : i \in DOMAIN bindings[w]}
\* The listeners of obj that L holds for a combination / on behalf of record id.
ListenersOf(L, k) ==
  {j \in DOMAIN L[k[1]] : <<k[1], L[k[1]][j].eventName, L[k[1]][j].callback,
                             L[k[1]][j].context>> = k}
ListenersFor(L, id) == {j \in DOMAIN L[recs[id].obj] : L[recs[id].obj][j].id = id}
NoCloseYet == \A v \in Views : closeCalls[v] = 0

\* C1: as long as one owner alone binds a combination (source object, event,
\* callback, context) and no view has been closed, the number of listeners
\* active for the combination is the number of bindTo calls with it whose
\* record has not been passed to unbindFrom.
C1_ListenersEqualLiveBinds ==
  \A id \in DOMAIN recs :
    LET same == {j \in DOMAIN recs : Combo(recs[j]) = Combo(recs[id])} IN
      (NoCloseYet /\ \A j \in same : recs[j].by = recs[id].by)
        => Cardinality(ListenersOf(listeners, Combo(recs[id])))
             = Cardinality(same \ unbound)

\* The unbindAll in progress returns in this step.
UnbindAllReturns == ua.active /\ ~ua'.active

\* C2 as stated: when unbindAll returns the owner's registry is empty and no
\* listener bound by the owner is active, whatever ran during the traversal.
C2_AsStated ==
  [][UnbindAllReturns =>
       /\ bindings'[ua.owner] = <<>>
       /\ \A id \in DOMAIN recs :
            recs[id].by = ua.owner => ListenersFor(listeners', id) = {}]_vars

\* C2 amended: when unbindAll returns, no record that was in the registry when
\* unbindAll was called is in it and none of their listeners is active; the
\* records left are records that bindTo added during the traversal, so the
\* registry is empty when bindTo was not invoked on the owner meanwhile.
C2_UnbindAllReleasesSnapshot ==
  [][UnbindAllReturns =>
       /\ \A k \in DOMAIN ua.snapshot :
            /\ ua.snapshot[k] \notin {bindings'[ua.owner][i] : i \in DOMAIN bindings'[ua.owner]}
            /\ ListenersFor(listeners', ua.snapshot[k]) = {}
       /\ {bindings'[ua.owner][i] : i \in DOMAIN bindings'[ua.owner]} \subseteq ua.rebound
       /\ ua.rebound = {} => bindings'[ua.owner] = <<>>]_vars

\* An unbindAll over two records has returned, bindTo and unbindFrom ran during it.
C2_Witness ==
  /\ ~ua.active /\ Len(ua.snapshot) >= 2 /\ ua.index > Len(ua.snapshot)
  /\ ua.rebound # {}
  /\ Registry(ua.owner) = ua.rebound
  /\ \A k \in DOMAIN ua.snapshot : ua.snapshot[k] \in unbound

\* C3: every record in a registry has exactly one active listener of its own on
\* its source object, and every active listener has its record in the registry
\* of the owner that bound it (as long as no owner has passed a record still
\* held by another owner to unbindFrom).
C3_RegistryMatchesListeners ==
  (\A id \in unbound : id \notin Registry(recs[id].by))
    => /\ \A w \in Owners : \A id \in Registry(w) :
            Cardinality(ListenersFor(listeners, id)) = 1
       /\ \A s \in SourceObjects : \A j \in DOMAIN listeners[s] :
            listeners[s][j].id \in Registry(recs[listeners[s][j].id].by)

\* C8: unbindFrom with a record that is not in the owner's registry leaves the
\* registry as it is and deregisters no listener of a record the registry holds.
C8_UnbindAbsentIsNoOp ==
  [][\A w \in Owners : \A id \in DOMAIN recs :
       (UnbindFrom(w, id) /\ id \notin Registry(w))
         => /\ bindings' = bindings
            /\ \A r \in Registry(w) :
                 ListenersFor(listeners, r) # {} => ListenersFor(listeners', r) # {}]_vars

\* The steps of one close() of view v, in the order of the code.
CloseOrder(v) ==
  (IF cfg[v].beforeClose THEN <<"beforeClose">> ELSE <<>>) \o <<"remove">>
    \o (IF cfg[v].onClose THEN <<"onClose">> ELSE <<>>) \o <<"close", "unbindAll", "unbind">>
IsPrefix(s, t) == Len(s) <= Len(t) /\ SubSeq(t, 1, Len(s)) = s

\* C4: the steps a close() has performed so far are an initial part of
\* beforeClose (if defined), remove, onClose (if defined), "close", unbindAll,
\* unbind: each at most once, none before the one ahead of it; a close() that
\* has returned has performed them all.
C4_CloseOrder ==
  \A v \in Views :
    /\ IsPrefix(closeLog[v], CloseOrder(v))
    /\ (pc[v] = "idle" /\ closeCalls[v] > 0) => closeLog[v] = CloseOrder(v)
    /\ pc[v] \in {"onClose", "trigger", "unbindAll", "unbind"} => detached[v]
    /\ pc[v] \in {"unbindAll", "unbind"} => closeEmitted[v] = closeCalls[v]
    /\ pc[v] \in {"remove", "onClose", "trigger"} => closeEmitted[v] = closeCalls[v] - 1

C4_Witness ==
  \E v \in Views :
    /\ pc[v] = "idle" /\ closeCalls[v] = 1
    /\ cfg[v].beforeClose /\ cfg[v].onClose
    /\ closeLog[v] = <<"beforeClose", "remove", "onClose", "close", "unbindAll", "unbind">>

\* The first close() of v returns in this step.
FirstCloseReturns(v) == pc[v] = "unbind" /\ pc'[v] = "idle" /\ closeCalls[v] = 1

Reverse(t) == [i \in 1..Len(t) |-> t[Len(t) + 1 - i]]
Missing == {i \in DOMAIN appRoutes : appRoutes[i][2] \notin controller}

\* C6 as stated: a table with a method the controller lacks makes construction
\* throw an error naming a missing method, and nothing has been registered then.
C6_AsStated ==
  /\ rpc = "done" => Missing = {}
  /\ rpc = "thrown" =>
       /\ \E i \in Missing : appRoutes[i][2] = thrown
       /\ registered = <<>>

\* C6 amended: ... construction throws an error naming the first missing method
\* in registration order (the reverse of the order in which the table's keys
\* are enumerated), and exactly the entries ahead of it in that order have been
\* registered: none only when the entry registered first is the one.
C6_ThrowsAtFirstMissing ==
  /\ rpc = "done" => Missing = {}
  /\ rpc = "thrown" =>
       LET order == Reverse(ForInOrder(appRoutes)) IN
         \E k \in DOMAIN order :
           /\ order[k][2] = thrown /\ thrown \notin controller
           /\ \A j \in 1..(k - 1) : order[j][2] \in controller
           /\ registered = SubSeq(order, 1, k - 1)

\* Construction threw after it had registered a route.
C6_Witness == rpc = "thrown" /\ registered # <<>> /\ thrown \notin controller

\* C7: when every method exists, construction registers one route per entry,
\* in the exact reverse of the order in which the table declares them.
C7_ReverseDeclarationOrder ==
  (rpc = "done" /\ Missing = {}) => registered = Reverse(appRoutes)
\* C9: serializeData returns the model's serialized form when there is a model,
\* else {items: the serialized collection} when there is a collection, else an
\* empty object, each with the templateHelpers' keys merged in, a helper's key
\* replacing the same key of the data; with a model, the collection's toJSON is
\* not called.
C9_SerializeData ==
  called = "serializeData" =>
    LET helperKeys == IF templateHelpers.kind = "absent" THEN {}
                      ELSE DOMAIN templateHelpers.value
        dataKeys == IF model.present THEN DOMAIN model.json
                    ELSE IF collection.present THEN {"items"} ELSE {}
    IN /\ result.defined
       /\ DOMAIN result.value = dataKeys \cup helperKeys
       /\ \A k \in helperKeys : result.value[k] = templateHelpers.value[k]
       /\ \A k \in dataKeys \ helperKeys :
            result.value[k] = IF model.present THEN model.json[k] ELSE collection.json
       /\ model.present => "collection" \notin toJSONCalls

\* serializeData ran with a model and a collection, and a helper replaced a key
\* of the model's data by another value.
C9_Witness ==
  /\ called = "serializeData" /\ model.present /\ collection.present
  /\ templateHelpers.kind = "producer"
  /\ \E k \in DOMAIN model.json \cap DOMAIN templateHelpers.value :
       model.json[k] # templateHelpers.value[k] /\ result.value[k] = templateHelpers.value[k]
  /\ \E k \in DOMAIN model.json : k \notin DOMAIN templateHelpers.value

C11_EachSnapshotRecordOnce ==
  /\ ua.passed = SubSeq(ua.snapshot, 1, ua.index - 1)
  /\ \A i, j \in DOMAIN ua.snapshot : ua.snapshot[i] = ua.snapshot[j] => i = j
  /\ ~ua.active => ua.index = Len(ua.snapshot) + 1
  /\ \A k \in DOMAIN ua.passed : ua.passed[k] \in unbound

\* An unbindAll over three records has returned; every turn replaced the
\* registry, which is empty now.
C11_Witness ==
  /\ ~ua.active /\ Len(ua.snapshot) = 3 /\ ua.passed = ua.snapshot
  /\ ua.rebound = {} /\ bindings[ua.owner] = <<>>

\* C12: bindTo appends the record it builds at the end of the caller's registry
\* and returns that record, leaving every other registry as it is; unbindFrom
\* of a record the registry holds removes that one record: the registry
\* afterwards is the registry before without the one position that held it,
\* so every other record, one with equal fields included, stays, and in the
\* same order.
C12_AppendAndRemoveByIdentity ==
  [][/\ Len(recs') = Len(recs) + 1 =>
          LET id == Len(recs')
              w == recs'[id].by
          IN /\ bindings'[w] = Append(bindings[w], id)
             /\ returned' = id
             /\ id \notin Registry(w)
             /\ \A x \in Owners \ {w} : bindings'[x] = bindings[x]
     /\ \A w \in Owners : \A id \in DOMAIN recs :
          (id \in Registry(w) /\ id \in unbound' /\ recs' = recs /\ pc' = pc
             /\ UnbindFrom(w, id)) =>
             /\ \E k \in DOMAIN bindings[w] :
                  /\ bindings[w][k] = id
                  /\ bindings'[w] = SubSeq(bindings[w], 1, k - 1)
                                      \o SubSeq(bindings[w], k + 1, Len(bindings[w]))
             /\ \A x \in Owners \ {w} : bindings'[x] = bindings[x]]_vars

\* A registry that held three records, two of them with equal fields, after
\* unbindFrom of the first of the two: the other one is still there, behind the
\* record bound before both.
C12_Witness ==
  \E w \in Owners : \E id \in unbound : \E other \in Registry(w) :
    /\ recs[id].by = w /\ id \notin Registry(w)
    /\ other > id /\ Combo(recs[other]) = Combo(recs[id])
    /\ returned = other
    /\ Len(bindings[w]) = 2 /\ bindings[w][1] < id /\ bindings[w][2] = other

\* A close() of v returns in this step.
CloseReturns(v) == pc[v] = "unbind" /\ pc'[v] = "idle"

\* C13: when a close() returns, the view's registry is empty and no listener
\* registered by a bindTo of the view is active on its source object any more,
\* whichever bindTo it was: one before close(), or one during it, from the
\* beforeClose hook, the onClose hook or a listener of the "close" event.
C13_CloseReleasesWhatItsHooksBound ==
  [][\A v \in Views : CloseReturns(v) =>
       /\ bindings'[v] = <<>>
       /\ \A id \in DOMAIN recs : recs[id].by = v => ListenersFor(listeners', id) = {}]_vars

\* A close() during which the view called bindTo has returned: the view has
\* bound three records in all, one of them on another object, and nothing has
\* been bound on the view since.
C13_Witness ==
  \E v \in Views :
    /\ pc[v] = "idle" /\ closeCalls[v] = 1
    /\ bindHist[v].boundInside /\ ~bindHist[v].boundAfter
    /\ Len(recs) = 3 /\ \A id \in DOMAIN recs : recs[id].by = v
    /\ \E id \in DOMAIN recs : recs[id].obj # v
    /\ bindings[v] = <<>>
    /\ \A id \in DOMAIN recs : ListenersFor(listeners, id) = {}

\* A close() of v has returned and none is running.
Closed(v) == closeCalls[v] > 0 /\ pc[v] = "idle"

\* C14 as stated: an event emitted on a view whose close() has returned invokes
\* no listener.
C14_AsStated ==
  \A v \in Views : (Closed(v) /\ fired.obj = v) => fired.calls = <<>>

\* C14 amended: when close() returns the view holds no listener at all, and an
\* event emitted on the view after that invokes no listener as long as nothing
\* has been registered on the view since close() returned.
C14_NoListenerSurvivesClose ==
  [][\A v \in Views :
       /\ CloseReturns(v) => listeners'[v] = <<>>
       /\ (closeCalls'[v] > 0 /\ pc'[v] = "idle" /\ fired'.obj = v
             /\ ~bindHist'[v].boundAfter) => fired'.calls = <<>>]_vars

\* "show" has been emitted on a closed view and has invoked nothing; the view
\* had bound a record on itself and another object had bound one on the view,
\* neither of which was ever passed to unbindFrom by its owner.
C14_Witness ==
  \E v \in Views :
    /\ Closed(v) /\ fired.obj = v /\ fired.eventName = "show" /\ fired.calls = <<>>
    /\ ~bindHist[v].boundAfter
    /\ \E id \in DOMAIN recs : recs[id].by = "o" /\ recs[id].obj = v /\ id \notin unbound
    /\ \E id \in DOMAIN recs : id > 1 /\ recs[id].by = v /\ recs[id].obj = v

OnShowCalledCalls(v) ==
  {i \in DOMAIN fired.calls :
     fired.calls[i].callback = "onShowCalled" /\ fired.calls[i].context = v}

\* The first record of every run is the constructor's: the view bound to its
\* own "show" event, onShowCalled as callback, the view as context.
ConstructorBoundShow ==
  \A v \in Views : Len(recs) >= 1 /\ recs[1] = ShowBinding(v) /\ recs[1].context = v

ExplicitEvents ==
  IF eventsArg.kind # "absent" THEN eventsArg.value
  ELSE IF events.kind # "absent" THEN events.value ELSE EmptyObject
TriggersMap == IF triggers.kind # "absent" THEN triggers.value ELSE EmptyObject

\* C17: the mapping delegateEvents hands to Backbone's delegateEvents has
\* exactly the descriptors of the explicit events mapping and of the triggers
\* mapping; under a descriptor of the triggers mapping, also one the explicit
\* events have, is the handler built for the trigger; under any other, the
\* explicit handler.
C17_TriggersOverrideEvents ==
  called = "delegateEvents" =>
    /\ delegated.defined
    /\ DOMAIN delegated.value = DOMAIN ExplicitEvents \cup DOMAIN TriggersMap
    /\ \A d \in DOMAIN TriggersMap :
         /\ delegated.value[d] = TriggerHandler(TriggersMap[d])
         /\ d \in DOMAIN ExplicitEvents => delegated.value[d] # ExplicitEvents[d]
    /\ \A d \in DOMAIN ExplicitEvents \ DOMAIN TriggersMap :
         delegated.value[d] = ExplicitEvents[d]

\* delegateEvents ran without argument on a view whose events have both
\* descriptors and whose triggers have one of them: that one carries the
\* trigger's handler, the other one the explicit handler.
C17_Witness ==
  /\ called = "delegateEvents" /\ eventsArg.kind = "absent"
  /\ DOMAIN events.value = Descriptors /\ DOMAIN triggers.value = {"click .a"}
  /\ delegated.value["click .a"] = TriggerHandler(triggers.value["click .a"])
  /\ delegated.value["click .b"] = events.value["click .b"]

\* C18: once the constructor has chosen, the controller in use is the
\* constructor argument's when one is given, else the instance's own; every
\* registered route names a method that controller has, its handler is that
\* controller's method bound to that controller, and with a constructor
\* argument's controller no handler is a method of, or bound to, the
\* instance's own, even for a method only the instance's own has.
C18_OneControllerForAllRoutes ==
  rpc # "new" =>
    LET expected == IF optController.given THEN "options"
                    ELSE IF thisController.given THEN "this" ELSE "none"
        methods == IF optController.given THEN optController.methods
                   ELSE thisController.methods
    IN /\ using = expected
       /\ Len(handlers) = Len(registered)
       /\ \A i \in DOMAIN handlers :
            /\ handlers[i] = [methodOf |-> expected, boundTo |-> expected]
            /\ registered[i][2] \in methods
       /\ optController.given =>
            \A i \in DOMAIN handlers : handlers[i].methodOf # "this"

\* A router given a controller as constructor argument, while the instance
\* has one of its own with other methods, has registered three routes.
C18_Witness ==
  /\ rpc = "done" /\ optController.given /\ thisController.given
  /\ optController.methods = MethodNames /\ thisController.methods = {"showA"}
  /\ Len(registered) = 3
  /\ \A i \in DOMAIN handlers : handlers[i].boundTo = "options"
====
